---- MODULE Spec2Model ----
(***************************************************************************)
(* TokenizerInitializer::init of src/tokenizer/tokenizer_initializer.rs:   *)
(* the JSON configuration is parsed, every entry's filters are constructed *)
(* (and dropped), its tokenizer is constructed and registered in the       *)
(* TokenizerManager under the entry's name.  A failing unwrap() or an      *)
(* explicit panic!() unwinds out of init and leaves the manager as it was  *)
(* at that moment.                                                         *)
(***************************************************************************)
EXTENDS Integers, Sequences, FiniteSets, TLC

(***************************************************************************)
(* Bounds of the model.                                                    *)
(***************************************************************************)
MaxFilters == 2      \* longest "filters" array of a single-entry document
MaxEntries == 2      \* most members of the top-level object
MaxLen == 3          \* longest text handed to token_stream

(***************************************************************************)
(* serde_json::Value.  A value is a record [t, v]: t is the variant and v  *)
(* its payload.  An object's payload is its member list, <<key, value>>    *)
(* pairs; in a document (the text before parsing) the list is in written   *)
(* order and may repeat a key, in a parsed Map it is sorted by key and     *)
(* holds each key once.                                                    *)
(***************************************************************************)
Null == [t |-> "null", v |-> <<>>]
Bool(b) == [t |-> "bool", v |-> b]
Num(n) == [t |-> "num", v |-> n]
Str(s) == [t |-> "str", v |-> s]
Arr(a) == [t |-> "arr", v |-> a]
Obj(m) == [t |-> "obj", v |-> m]
\* text that is not JSON at all
Malformed == [t |-> "malformed", v |-> <<>>]

is_object(x) == x.t = "obj"
is_array(x) == x.t = "arr"
is_str(x) == x.t = "str"
is_u64(x) == x.t = "num" /\ x.v >= 0

\* Map::contains_key
contains_key(m, k) == \E i \in DOMAIN m : m[i][1] = k

\* Map's Index: the value stored under k (the caller checks contains_key, as a
\* missing key panics).  In a member list with a repeated key the last one counts.
Index(m, k) ==
  m[CHOOSE i \in DOMAIN m : m[i][1] = k /\ \A j \in DOMAIN m : j > i => m[j][1] # k][2]

\* Every key the documents of this model use, in the order of their bytes: the
\* order serde_json's Map iterates in (it is a BTreeMap unless the crate is built
\* with preserve_order).
SortedKeys ==
  << "args", "default", "en_text", "filters", "length_limit", "max_gram", "min_gram",
     "name", "prefix_only", "stemmer_algorithm", "tokenizer", "words" >>

Rank(k) == CHOOSE i \in DOMAIN SortedKeys : SortedKeys[i] = k

RECURSIVE SortKeys(_)
SortKeys(ks) ==
  IF ks = {} THEN <<>>
  ELSE LET k == CHOOSE x \in ks : \A y \in ks : Rank(x) <= Rank(y)
       IN <<k>> \o SortKeys(ks \ {k})

\* serde_json's deserialization of a value: an object's members are inserted one by
\* one into a Map, so a repeated key keeps its last value, and the Map iterates in
\* key order.
RECURSIVE ParseValue(_)
ParseValue(x) ==
  CASE x.t = "obj" ->
         LET keys == SortKeys({x.v[i][1] : i \in DOMAIN x.v})
         IN Obj([i \in DOMAIN keys |-> <<keys[i], ParseValue(Index(x.v, keys[i]))>>])
    [] x.t = "arr" -> Arr([i \in DOMAIN x.v |-> ParseValue(x.v[i])])
    [] OTHER -> x

\* A Rust String holding JSON text is the sequence of the documents it spells: <<>>
\* is String::new(), <<d>> the text of document d.
EmptyString == <<>>

\* serde_json::to_string: the text of a parsed value.
to_string(x) == <<x>>

\* serde_json::from_str: Result<Value>; [ok |-> FALSE] is Err.
from_str(s) ==
  IF Len(s) # 1 \/ s[1].t = "malformed"
  THEN [ok |-> FALSE, value |-> Null]
  ELSE [ok |-> TRUE, value |-> ParseValue(s[1])]

(***************************************************************************)
(* Errors.  init has no error value: unwrap() on None or Err and panic!()  *)
(* unwind out of it.  The model records what unwound: the kind, the        *)
(* component ("tokenizer" or "filter") and the name in the panic message.  *)
(***************************************************************************)
NoError == [kind |-> "none", component |-> "", name |-> ""]
StructuralError == [kind |-> "structural", component |-> "", name |-> ""]
UnknownError(c, n) == [kind |-> "unknown", component |-> c, name |-> n]
ArgumentError(c, n) == [kind |-> "argument", component |-> c, name |-> n]

(***************************************************************************)
(* The component factories (fields of TokenizerInitializer).  A component  *)
(* is [kind, args]: the kind that made it and the parsed arguments it was  *)
(* made with (Null when it takes none).                                    *)
(***************************************************************************)
Component(k, a) == [kind |-> k, args |-> a]
Made(c) == [ok |-> TRUE, error |-> NoError, component |-> c]
Failed(e) == [ok |-> FALSE, error |-> e, component |-> Component("", Null)]

\* FacetTokenizerFactory::create, RawTokenizerFactory::create,
\* SimpleTokenizerFactory::create and the three filters without arguments:
\* create() reads nothing.
FacetTokenizerFactory_create == Made(Component("facet", Null))
RawTokenizerFactory_create == Made(Component("raw", Null))
SimpleTokenizerFactory_create == Made(Component("simple", Null))
AlphaNumOnlyFilterFactory_create == Made(Component("alpha_num_only", Null))
AsciiFoldingFilterFactory_create == Made(Component("ascii_folding", Null))
LowerCaseFilterFactory_create == Made(Component("lower_case", Null))

\* The defaults an n-gram tokenizer is made with when it is given no arguments.
NgramDefaults ==
  Obj(<< <<"max_gram", Num(2)>>, <<"min_gram", Num(1)>>, <<"prefix_only", Bool(FALSE)>> >>)

\* NgramTokenizerFactory::create(args): min/max gram size and edge behaviour; no
\* arguments means the defaults, arguments of the wrong shape, type or range fail.
NgramTokenizerFactory_create(args) ==
  IF args = EmptyString THEN Made(Component("ngram", NgramDefaults))
  ELSE LET r == from_str(args) IN
    IF /\ r.ok
       /\ is_object(r.value)
       /\ contains_key(r.value.v, "min_gram") /\ is_u64(Index(r.value.v, "min_gram"))
       /\ contains_key(r.value.v, "max_gram") /\ is_u64(Index(r.value.v, "max_gram"))
       /\ contains_key(r.value.v, "prefix_only")
       /\ Index(r.value.v, "prefix_only").t = "bool"
       /\ 1 <= Index(r.value.v, "min_gram").v
       /\ Index(r.value.v, "min_gram").v <= Index(r.value.v, "max_gram").v
    THEN Made(Component("ngram", r.value))
    ELSE Failed(ArgumentError("tokenizer", "ngram"))

\* RemoveLongFilterFactory::create(args): `length_limit` is mandatory.
RemoveLongFilterFactory_create(args) ==
  LET r == from_str(args) IN
    IF /\ r.ok
       /\ is_object(r.value)
       /\ contains_key(r.value.v, "length_limit")
       /\ is_u64(Index(r.value.v, "length_limit"))
    THEN Made(Component("remove_long", r.value))
    ELSE Failed(ArgumentError("filter", "remove_long"))

\* StemmingFilterFactory::create(args): `stemmer_algorithm` is mandatory.
StemmingFilterFactory_create(args) ==
  LET r == from_str(args) IN
    IF /\ r.ok
       /\ is_object(r.value)
       /\ contains_key(r.value.v, "stemmer_algorithm")
       /\ is_str(Index(r.value.v, "stemmer_algorithm"))
       /\ Index(r.value.v, "stemmer_algorithm").v = "english"
    THEN Made(Component("stemming", r.value))
    ELSE Failed(ArgumentError("filter", "stemming"))

\* StopWordFilterFactory::create(args): `words`, a list of strings, is mandatory.
StopWordFilterFactory_create(args) ==
  LET r == from_str(args) IN
    IF /\ r.ok
       /\ is_object(r.value)
       /\ contains_key(r.value.v, "words")
       /\ is_array(Index(r.value.v, "words"))
       /\ \A i \in DOMAIN Index(r.value.v, "words").v : is_str(Index(r.value.v, "words").v[i])
    THEN Made(Component("stop_word", r.value))
    ELSE Failed(ArgumentError("filter", "stop_word"))

(***************************************************************************)
(* The steps of init, as functions of what they read.                      *)
(***************************************************************************)
\* TokenizerSettings, but "filters" that is no array is passed over as if absent.
TokenizerSettingsLax(tokenizer_config_value) ==
  IF ~is_object(tokenizer_config_value) THEN
    [ok |-> FALSE, tokenizer_name |-> "", tokenizer_args |-> EmptyString,
     filters_config_value |-> <<>>]
  ELSE LET tokenizer_config_map == tokenizer_config_value.v IN
    IF \/ ~contains_key(tokenizer_config_map, "tokenizer")
       \/ ~is_object(Index(tokenizer_config_map, "tokenizer"))
       \/ ~contains_key(Index(tokenizer_config_map, "tokenizer").v, "name")
       \/ ~is_str(Index(Index(tokenizer_config_map, "tokenizer").v, "name"))
    THEN [ok |-> FALSE, tokenizer_name |-> "", tokenizer_args |-> EmptyString,
          filters_config_value |-> <<>>]
    ELSE LET tokenizer_settings == Index(tokenizer_config_map, "tokenizer").v IN
      [ok |-> TRUE,
       tokenizer_name |-> Index(tokenizer_settings, "name").v,
       tokenizer_args |-> IF contains_key(tokenizer_settings, "args")
                          THEN to_string(Index(tokenizer_settings, "args"))
                          ELSE EmptyString,
       filters_config_value |->
         IF /\ contains_key(tokenizer_config_map, "filters")
            /\ is_array(Index(tokenizer_config_map, "filters"))
         THEN Index(tokenizer_config_map, "filters").v
         ELSE <<>>]

\* Lines 54-67 and 72-73: the entry's value is unwrapped to an object, its
\* "tokenizer" to an object, the tokenizer's "name" to a string; "args" is
\* serialized when present; "filters", when present, is unwrapped to an array.
Settings(ok, n, a, f) ==
  [ok |-> ok, tokenizer_name |-> n, tokenizer_args |-> a, filters_config_value |-> f]

TokenizerSettings(tokenizer_config_value) ==
  LET bad == Settings(FALSE, "", EmptyString, <<>>) IN
  IF ~is_object(tokenizer_config_value) THEN bad
  ELSE LET tokenizer_config_map == tokenizer_config_value.v IN
    IF ~contains_key(tokenizer_config_map, "tokenizer") THEN bad
    ELSE IF ~is_object(Index(tokenizer_config_map, "tokenizer")) THEN bad
    ELSE LET tokenizer_settings == Index(tokenizer_config_map, "tokenizer").v IN
      IF ~contains_key(tokenizer_settings, "name") THEN bad
      ELSE IF ~is_str(Index(tokenizer_settings, "name")) THEN bad
      ELSE IF /\ contains_key(tokenizer_config_map, "filters")
              /\ ~is_array(Index(tokenizer_config_map, "filters")) THEN bad
      ELSE Settings(TRUE,
                    Index(tokenizer_settings, "name").v,
                    IF contains_key(tokenizer_settings, "args")
                    THEN to_string(Index(tokenizer_settings, "args"))
                    ELSE EmptyString,
                    IF contains_key(tokenizer_config_map, "filters")
                    THEN Index(tokenizer_config_map, "filters").v
                    ELSE <<>>)

\* Lines 75-85: one element of "filters" is unwrapped to an object and its "name"
\* to a string; "args" is serialized when present.
FilterSettings(filter_config_value) ==
  LET bad == [ok |-> FALSE, filter_name |-> "", filter_args |-> EmptyString] IN
  IF ~is_object(filter_config_value) THEN bad
  ELSE LET filter_settings == filter_config_value.v IN
    IF ~contains_key(filter_settings, "name") THEN bad
    ELSE IF ~is_str(Index(filter_settings, "name")) THEN bad
    ELSE [ok |-> TRUE,
          filter_name |-> Index(filter_settings, "name").v,
          filter_args |-> IF contains_key(filter_settings, "args")
                          THEN to_string(Index(filter_settings, "args"))
                          ELSE EmptyString]

\* CreateFilter, but a filter of an unknown kind is passed over.
CreateFilterLenient(filter_name, filter_args) ==
  CASE filter_name = "alpha_num_only" -> AlphaNumOnlyFilterFactory_create
    [] filter_name = "ascii_folding" -> AsciiFoldingFilterFactory_create
    [] filter_name = "lower_case" -> LowerCaseFilterFactory_create
    [] filter_name = "remove_long" -> RemoveLongFilterFactory_create(filter_args)
    [] filter_name = "stemming" -> StemmingFilterFactory_create(filter_args)
    [] filter_name = "stop_word" -> StopWordFilterFactory_create(filter_args)
    [] OTHER -> Made(Component(filter_name, Null))

\* CreateFilter, but remove_long is created like the filters without arguments.
CreateFilterNoArgs(filter_name, filter_args) ==
  CASE filter_name = "alpha_num_only" -> AlphaNumOnlyFilterFactory_create
    [] filter_name = "ascii_folding" -> AsciiFoldingFilterFactory_create
    [] filter_name = "lower_case" -> LowerCaseFilterFactory_create
    [] filter_name = "remove_long" -> Made(Component("remove_long", Null))
    [] filter_name = "stemming" -> StemmingFilterFactory_create(filter_args)
    [] filter_name = "stop_word" -> StopWordFilterFactory_create(filter_args)
    [] OTHER -> Failed(UnknownError("filter", filter_name))

\* Lines 88-129: the match on filter_name.
CreateFilter(filter_name, filter_args) ==
  CASE filter_name = "alpha_num_only" -> AlphaNumOnlyFilterFactory_create
    [] filter_name = "ascii_folding" -> AsciiFoldingFilterFactory_create
    [] filter_name = "lower_case" -> LowerCaseFilterFactory_create
    [] filter_name = "remove_long" -> RemoveLongFilterFactory_create(filter_args)
    [] filter_name = "stemming" -> StemmingFilterFactory_create(filter_args)
    [] filter_name = "stop_word" -> StopWordFilterFactory_create(filter_args)
    [] OTHER -> Failed(UnknownError("filter", filter_name))

\* CreateTokenizer, but an unknown kind falls back to the raw tokenizer.
CreateTokenizerFallback(tokenizer_name, tokenizer_args) ==
  CASE tokenizer_name = "facet" -> FacetTokenizerFactory_create
    [] tokenizer_name = "ngram" -> NgramTokenizerFactory_create(tokenizer_args)
    [] tokenizer_name = "raw" -> RawTokenizerFactory_create
    [] tokenizer_name = "simple" -> SimpleTokenizerFactory_create
    [] OTHER -> RawTokenizerFactory_create

\* CreateTokenizer, but the "facet" arm uses the raw tokenizer's factory.
CreateTokenizerCopied(tokenizer_name, tokenizer_args) ==
  CASE tokenizer_name = "facet" -> RawTokenizerFactory_create
    [] tokenizer_name = "ngram" -> NgramTokenizerFactory_create(tokenizer_args)
    [] tokenizer_name = "raw" -> RawTokenizerFactory_create
    [] tokenizer_name = "simple" -> SimpleTokenizerFactory_create
    [] OTHER -> Failed(UnknownError("tokenizer", tokenizer_name))

\* Lines 134-173: the match on tokenizer_name, up to the tokenizer it creates.
CreateTokenizer(tokenizer_name, tokenizer_args) ==
  CASE tokenizer_name = "facet" -> FacetTokenizerFactory_create
    [] tokenizer_name = "ngram" -> NgramTokenizerFactory_create(tokenizer_args)
    [] tokenizer_name = "raw" -> RawTokenizerFactory_create
    [] tokenizer_name = "simple" -> SimpleTokenizerFactory_create
    [] OTHER -> Failed(UnknownError("tokenizer", tokenizer_name))

\* What init hands to manager.register: the tokenizer alone.  The filters were
\* bound to `_filter` inside the loop and dropped there; the lines that would
\* attach them (138-140 and their like) are commented out.
Registered(tokenizer, filters) == [tokenizer |-> tokenizer, filters |-> <<>>]

\* register, but a name the map already holds keeps its analyzer.
register_if_absent(map, name, analyzer) ==
  [n \in DOMAIN map \cup {name} |-> IF n \in DOMAIN map THEN map[n] ELSE analyzer]

\* TokenizerManager::register: the map entry `name` is inserted or replaced.
register(map, name, analyzer) ==
  [n \in DOMAIN map \cup {name} |-> IF n = name THEN analyzer ELSE map[n]]

\* After, but a failure is passed over and init goes on.
AfterContinue(ok, next) == next

\* Where control goes after a step: on, or out of init by unwinding (unwrap() on
\* None or Err, panic!()).
After(ok, next) == IF ok THEN next ELSE "panicked"

(***************************************************************************)
(* The configurations init is called with.                                 *)
(***************************************************************************)
NotAnObject == Num(7)
Name(k) == <<"name", Str(k)>>
Args(a) == <<"args", a>>

NgramArgs ==
  Obj(<< <<"min_gram", Num(1)>>, <<"max_gram", Num(1)>>, <<"prefix_only", Bool(FALSE)>> >>)
RemoveLongArgs == Obj(<< <<"length_limit", Num(1)>> >>)
StemmingArgs == Obj(<< <<"stemmer_algorithm", Str("english")>> >>)
StopWordArgs == Obj(<< <<"words", Arr(<< Str("w") >>)>> >>)

TokenizerKinds == {"facet", "ngram", "raw", "simple"}
FilterKinds ==
  {"alpha_num_only", "ascii_folding", "lower_case", "remove_long", "stemming", "stop_word"}

\* Values of an entry's "tokenizer".
TokenizerValues ==
  {NotAnObject, Obj(<<>>), Obj(<< <<"name", Num(7)>> >>)}
    \cup {Obj(<< Name(k) >>) : k \in TokenizerKinds \cup {"bogus"}}
    \cup {Obj(<< Name(k), Args(a) >>) :
            k \in {"ngram", "simple"}, a \in {NgramArgs, Obj(<<>>), NotAnObject}}

\* Elements of an entry's "filters".
FilterValues ==
  {NotAnObject, Obj(<<>>), Obj(<< <<"name", Num(7)>> >>)}
    \cup {Obj(<< Name(k) >>) : k \in FilterKinds \cup {"bogus", "bogus2"}}
    \cup { Obj(<< Name("remove_long"), Args(RemoveLongArgs) >>),
           Obj(<< Name("stemming"), Args(StemmingArgs) >>),
           Obj(<< Name("stop_word"), Args(StopWordArgs) >>),
           Obj(<< Name("remove_long"), Args(StemmingArgs) >>),
           Obj(<< Name("stop_word"), Args(NotAnObject) >>),
           Obj(<< Name("lower_case"), Args(NotAnObject) >>) }

\* An entry's value, from its tokenizer and the values its "filters" may take.
EntryValues(tokenizer_values, filters_values) ==
  {NotAnObject, Obj(<<>>)}
    \cup {Obj(<< <<"tokenizer", t>> >>) : t \in tokenizer_values}
    \cup {Obj(<< <<"tokenizer", t>>, <<"filters", f>> >>) :
            t \in tokenizer_values, f \in filters_values}

\* The text of a document with the one entry `n`: e.
OneEntry(n, e) == << Obj(<< <<n, e>> >>) >>

\* The names of the entries: one the default manager already holds, one it does not.
EntryNames == {"default", "en_text"}

\* Texts that hold no entry: the empty text, text that is not JSON, a top-level
\* value that is no object, the empty object.
EmptyConfigs == {EmptyString, << Malformed >>, << NotAnObject >>, << Obj(<<>>) >>}

\* The entries of a document with one entry and short "filters": every tokenizer
\* value with "filters" absent, no array, or of at most one element.
ShortEntries ==
  EntryValues(TokenizerValues,
              {NotAnObject} \cup {Arr(a) : a \in UNION {[1..k -> FilterValues] : k \in 0..1}})

\* The tokenizers of a document with one entry and longer "filters": one that is
\* known, one that takes arguments, one that is unknown.
LongTokenizers ==
  {Obj(<< Name("simple") >>), Obj(<< Name("ngram"), Args(NgramArgs) >>), Obj(<< Name("bogus") >>)}

LongEntry(t, a) == Obj(<< <<"tokenizer", t>>, <<"filters", Arr(a)>> >>)

\* The entries of a document with several.
PlainEntries ==
  EntryValues({Obj(<< Name("simple") >>), Obj(<< Name("raw") >>), Obj(<< Name("bogus") >>)},
              { Arr(<< Obj(<< Name("lower_case") >>) >>),
                Arr(<< Obj(<< Name("bogus") >>) >>),
                Arr(<< Obj(<< Name("remove_long"), Args(StemmingArgs) >>) >>) })

(***************************************************************************)
(* TokenizerManager::default(): the manager the test hands to init.        *)
(***************************************************************************)
DefaultManager ==
  [n \in {"raw", "default", "en_stem"} |->
     CASE n = "raw" -> [tokenizer |-> Component("raw", Null), filters |-> <<>>]
       [] n = "default" ->
            [tokenizer |-> Component("simple", Null),
             filters |-> << Component("remove_long", Obj(<< <<"length_limit", Num(40)>> >>)),
                            Component("lower_case", Null) >>]
       [] n = "en_stem" ->
            [tokenizer |-> Component("simple", Null),
             filters |-> << Component("remove_long", Obj(<< <<"length_limit", Num(40)>> >>)),
                            Component("lower_case", Null),
                            Component("stemming", StemmingArgs) >>]]

NoEntries == [n \in {} |-> Null]

(***************************************************************************)
(* State.                                                                  *)
(***************************************************************************)
VARIABLES
  tokenizers,            \* the TokenizerManager's map, name -> analyzer
  initializer,           \* the TokenizerInitializer: the kinds it holds a factory for
  pc,                    \* "idle", inside init ("entry", "filters", "create"), "done", "panicked"
  config,                \* init's argument
  config_map,            \* the parsed top-level object, in iteration order
  entry,                 \* position of the for loop of line 51 in config_map
  tokenizer_name,
  tokenizer_args,
  filters_config_value,
  item,                  \* position of the for loop of line 74 in filters_config_value
  filters,               \* the `_filter` values created for the current entry
  error,                 \* what unwound out of init
  before,                \* history: the manager's map when init was called
  source,                \* history: name -> [tokenizer, filters] this call of init registered it from
  stream                 \* what the last token_stream gave

vars ==
  << tokenizers, initializer, pc, config, config_map, entry, tokenizer_name,
     tokenizer_args, filters_config_value, item, filters, error, before, source, stream >>

locals == << tokenizer_name, tokenizer_args, filters_config_value, item, filters >>

\* TokenizerInitializer::new and the manager of the test.
Init ==
  /\ tokenizers = DefaultManager
  /\ initializer = [tokenizer_factories |-> TokenizerKinds, filter_factories |-> FilterKinds]
  /\ pc = "idle"
  /\ config = EmptyString
  /\ config_map = <<>>
  /\ entry = 1
  /\ tokenizer_name = ""
  /\ tokenizer_args = EmptyString
  /\ filters_config_value = <<>>
  /\ item = 1
  /\ filters = <<>>
  /\ error = NoError
  /\ before = DefaultManager
  /\ source = NoEntries
  /\ stream = [found |-> FALSE, name |-> "", text |-> <<>>, tokens |-> <<>>]

\* init has not been called yet: it runs once, when the process starts.
Callable == pc = "idle"

\* Lines 47-51: init is entered, the text is parsed and unwrapped to an object.
InitCall(c) ==
  LET r == from_str(c)
      ok == r.ok /\ is_object(r.value)
  IN /\ Callable
     /\ config' = c
     /\ before' = tokenizers
     /\ source' = NoEntries
     /\ config_map' = IF ok THEN r.value.v ELSE <<>>
     /\ entry' = 1
     /\ error' = IF ok THEN NoError ELSE StructuralError
     /\ pc' = After(ok, IF ok /\ r.value.v # <<>> THEN "entry" ELSE "done")
     /\ tokenizer_name' = ""
     /\ tokenizer_args' = EmptyString
     /\ filters_config_value' = <<>>
     /\ item' = 1
     /\ filters' = <<>>
     /\ UNCHANGED << tokenizers, initializer, stream >>

\* Lines 51-73: the next entry's settings are read.
EntryStep ==
  LET s == TokenizerSettings(config_map[entry][2])
  IN /\ pc = "entry"
     /\ tokenizer_name' = s.tokenizer_name
     /\ tokenizer_args' = s.tokenizer_args
     /\ filters_config_value' = s.filters_config_value
     /\ item' = 1
     /\ filters' = <<>>
     /\ error' = IF s.ok THEN error ELSE StructuralError
     /\ pc' = After(s.ok, IF s.filters_config_value # <<>> THEN "filters" ELSE "create")
     /\ UNCHANGED << tokenizers, initializer, config, config_map, entry, before,
                     source, stream >>

\* Lines 74-130: one turn of the loop over "filters".
FilterStep ==
  LET s == FilterSettings(filters_config_value[item])
      r == IF s.ok THEN CreateFilter(s.filter_name, s.filter_args)
                   ELSE Failed(StructuralError)
  IN /\ pc = "filters"
     /\ filters' = IF r.ok THEN Append(filters, r.component) ELSE filters
     /\ item' = IF r.ok THEN item + 1 ELSE item
     /\ error' = IF r.ok THEN error ELSE r.error
     /\ pc' = After(r.ok, IF item < Len(filters_config_value) THEN "filters" ELSE "create")
     /\ UNCHANGED << tokenizers, initializer, config, config_map, entry,
                     tokenizer_name, tokenizer_args, filters_config_value, before,
                     source, stream >>

\* CreateStep, but the tokenizer is registered under its kind, not the entry's name.
CreateStepUnderKind ==
  LET r == CreateTokenizer(tokenizer_name, tokenizer_args)
  IN /\ pc = "create"
     /\ tokenizers' = IF r.ok
                      THEN register(tokenizers, tokenizer_name, Registered(r.component, filters))
                      ELSE tokenizers
     /\ source' = IF r.ok
                  THEN register(source, tokenizer_name,
                                [tokenizer |-> r.component, filters |-> filters])
                  ELSE source
     /\ entry' = IF r.ok THEN entry + 1 ELSE entry
     /\ error' = IF r.ok THEN error ELSE r.error
     /\ pc' = After(r.ok, IF entry < Len(config_map) THEN "entry" ELSE "done")
     /\ UNCHANGED << initializer, config, config_map, before, stream >>
     /\ UNCHANGED locals

\* Lines 133-176: the tokenizer is created and registered under the entry's name,
\* and the loop of line 51 goes on or ends.
CreateStep ==
  LET name == config_map[entry][1]
      r == CreateTokenizer(tokenizer_name, tokenizer_args)
  IN /\ pc = "create"
     /\ tokenizers' = IF r.ok THEN register(tokenizers, name, Registered(r.component, filters))
                              ELSE tokenizers
     /\ source' = IF r.ok
                  THEN register(source, name, [tokenizer |-> r.component, filters |-> filters])
                  ELSE source
     /\ entry' = IF r.ok THEN entry + 1 ELSE entry
     /\ error' = IF r.ok THEN error ELSE r.error
     /\ pc' = After(r.ok, IF entry < Len(config_map) THEN "entry" ELSE "done")
     /\ UNCHANGED << initializer, config, config_map, before, stream >>
     /\ UNCHANGED locals

(***************************************************************************)
(* Analysis: what a registered analyzer does with a text.  A text is a     *)
(* sequence of one-byte characters; a token is its text and the byte       *)
(* offsets of that text in the source.                                     *)
(***************************************************************************)
Chars == {"H", "w", " "}
Texts == UNION {[1..k -> Chars] : k \in 0..MaxLen}

Token(text, from, to) == [text |-> text, offset_from |-> from, offset_to |-> to]

IsAlphaNumeric(c) == c \in {"H", "h", "w"}
ToLowerCase(c) == IF c = "H" THEN "h" ELSE c
\* Every character of Chars is ASCII already.
ToAscii(c) == c

\* SimpleTokenizer: the maximal runs of alphanumeric characters.  `start` is the
\* position the current run began at, 0 outside a run.
RECURSIVE SimpleTokens(_, _, _)
SimpleTokens(text, i, start) ==
  IF i > Len(text)
  THEN IF start = 0 THEN <<>>
       ELSE << Token(SubSeq(text, start, Len(text)), start - 1, Len(text)) >>
  ELSE IF IsAlphaNumeric(text[i])
       THEN SimpleTokens(text, i + 1, IF start = 0 THEN i ELSE start)
       ELSE (IF start = 0 THEN <<>>
             ELSE << Token(SubSeq(text, start, i - 1), start - 1, i - 1) >>)
            \o SimpleTokens(text, i + 1, 0)

\* NgramTokenizer: every window of min_gram..max_gram characters, by start and
\* then by length; only the windows at the start of the text when prefix_only.
RECURSIVE NgramTokens(_, _, _, _, _, _)
NgramTokens(text, min_gram, max_gram, prefix_only, from, n) ==
  IF from >= Len(text) \/ (prefix_only /\ from > 0) THEN <<>>
  ELSE IF n > max_gram \/ from + n > Len(text)
       THEN NgramTokens(text, min_gram, max_gram, prefix_only, from + 1, min_gram)
       ELSE << Token(SubSeq(text, from + 1, from + n), from, from + n) >>
            \o NgramTokens(text, min_gram, max_gram, prefix_only, from, n + 1)

\* FacetTokenizer: the root, then every prefix of the path that ends at a path
\* separator or at the end of the text; Chars holds no separator, so a text that is
\* not empty is one path segment.  The facet tokens carry no offsets.
FacetTokens(text) ==
  << Token(<<>>, 0, 0) >> \o (IF text = <<>> THEN <<>> ELSE << Token(text, 0, 0) >>)

\* Tokenizer::token_stream of the tokenizer a factory made.  RawTokenizer gives the
\* whole text as one token.
Tokenize(tokenizer, text) ==
  CASE tokenizer.kind = "simple" -> SimpleTokens(text, 1, 0)
    [] tokenizer.kind = "ngram" ->
         NgramTokens(text,
                     Index(tokenizer.args.v, "min_gram").v,
                     Index(tokenizer.args.v, "max_gram").v,
                     Index(tokenizer.args.v, "prefix_only").v,
                     0,
                     Index(tokenizer.args.v, "min_gram").v)
    [] tokenizer.kind = "raw" -> << Token(text, 0, Len(text)) >>
    [] tokenizer.kind = "facet" -> FacetTokens(text)

\* LowerCaser: every token's text in lower case.
LowerCased(tokens) ==
  [i \in DOMAIN tokens |->
     [tokens[i] EXCEPT !.text = [j \in DOMAIN tokens[i].text |-> ToLowerCase(tokens[i].text[j])]]]

\* AsciiFoldingFilter: every token's text folded to ASCII.
AsciiFolded(tokens) ==
  [i \in DOMAIN tokens |->
     [tokens[i] EXCEPT !.text = [j \in DOMAIN tokens[i].text |-> ToAscii(tokens[i].text[j])]]]

\* One TokenFilter applied to a token sequence.  The stop words of this model are
\* one character long; the stemmer leaves a word without a vowel as it is, and
\* Chars holds no vowel.
ApplyFilter(filter, tokens) ==
  CASE filter.kind = "lower_case" -> LowerCased(tokens)
    [] filter.kind = "ascii_folding" -> AsciiFolded(tokens)
    [] filter.kind = "stemming" -> tokens
    [] filter.kind = "alpha_num_only" ->
         LET Keep(t) == \A j \in DOMAIN t.text : IsAlphaNumeric(t.text[j])
         IN SelectSeq(tokens, Keep)
    [] filter.kind = "remove_long" ->
         LET Keep(t) == Len(t.text) <= Index(filter.args.v, "length_limit").v
         IN SelectSeq(tokens, Keep)
    [] filter.kind = "stop_word" ->
         LET words == Index(filter.args.v, "words").v
             Keep(t) == \A i \in DOMAIN words : t.text # << words[i].v >>
         IN SelectSeq(tokens, Keep)

RECURSIVE ApplyFilters(_, _)
ApplyFilters(chain, tokens) ==
  IF chain = <<>> THEN tokens
  ELSE ApplyFilters(Tail(chain), ApplyFilter(Head(chain), tokens))

\* An analyzer's token_stream: the tokenizer's tokens, through its filters in order.
Analyze(analyzer, text) == ApplyFilters(analyzer.filters, Tokenize(analyzer.tokenizer, text))

\* init has returned and nothing has been looked up yet.
Ready == pc = "done" /\ stream.name = ""

\* Lines 240-241 of the test: after init has returned, manager.get(name) and the
\* token stream of a text.
TokenStream(name, text) ==
  /\ Ready
  /\ stream' = IF name \in DOMAIN tokenizers
               THEN [found |-> TRUE, name |-> name, text |-> text,
                     tokens |-> Analyze(tokenizers[name], text)]
               ELSE [found |-> FALSE, name |-> name, text |-> text, tokens |-> <<>>]
  /\ UNCHANGED << tokenizers, initializer, pc, config, config_map, entry, error,
                  before, source >>
  /\ UNCHANGED locals

\* The names looked up: those the default manager holds, those init may register.
LookupNames == {"raw", "default", "en_stem", "en_text"}

Next ==
  \/ Callable /\ \E c \in EmptyConfigs : InitCall(c)
  \/ Callable /\ \E n \in EntryNames, e \in ShortEntries : InitCall(OneEntry(n, e))
  \/ Callable /\ \E n \in EntryNames, t \in LongTokenizers, k \in 2..MaxFilters :
                   \E a \in [1..k -> FilterValues] : InitCall(OneEntry(n, LongEntry(t, a)))
  \/ Callable /\ \E k \in 2..MaxEntries :
                   \E m \in [1..k -> EntryNames \X PlainEntries] : InitCall(<< Obj(m) >>)
  \/ EntryStep
  \/ FilterStep
  \/ CreateStep

Spec == Init /\ [][Next]_vars

\* init, and the lookups that follow it.
NextAnalyze ==
  \/ Next
  \/ Ready /\ \E name \in LookupNames, text \in Texts : TokenStream(name, text)

SpecAnalyze == Init /\ [][NextAnalyze]_vars

(***************************************************************************)
(* The configuration as the specification describes it, read off init's    *)
(* argument.                                                               *)
(***************************************************************************)
\* The members of the top-level object as written; <<>> when the text is no object.
Members == IF config # EmptyString /\ config[1].t = "obj" THEN config[1].v ELSE <<>>
MemberNames == {Members[i][1] : i \in DOMAIN Members}

\* No two entries of the document share a name.
UniqueNames == \A i, j \in DOMAIN Members : i # j => Members[i][1] # Members[j][1]

\* A component reference: an object with a string `name`.
IsRef(x) == is_object(x) /\ contains_key(x.v, "name") /\ is_str(Index(x.v, "name"))
RefName(x) == Index(x.v, "name").v
RefArgs(x) == IF contains_key(x.v, "args") THEN to_string(Index(x.v, "args")) ELSE EmptyString

TokenizerRef(e) == Index(e.v, "tokenizer")
FilterRefs(e) ==
  IF is_object(e) /\ contains_key(e.v, "filters") /\ is_array(Index(e.v, "filters"))
  THEN Index(e.v, "filters").v
  ELSE <<>>

\* A structural deviation of an entry's value.
Deviates(e) ==
  \/ ~is_object(e)
  \/ ~contains_key(e.v, "tokenizer")
  \/ ~IsRef(TokenizerRef(e))
  \/ contains_key(e.v, "filters") /\ ~is_array(Index(e.v, "filters"))
  \/ \E i \in DOMAIN FilterRefs(e) : ~IsRef(FilterRefs(e)[i])

UnknownTokenizer(e) ==
  /\ is_object(e) /\ contains_key(e.v, "tokenizer") /\ IsRef(TokenizerRef(e))
  /\ RefName(TokenizerRef(e)) \notin TokenizerKinds

UnknownFilterAt(e, i) ==
  /\ i \in DOMAIN FilterRefs(e)
  /\ IsRef(FilterRefs(e)[i])
  /\ RefName(FilterRefs(e)[i]) \notin FilterKinds

UnknownFilter(e) == \E i \in DOMAIN FilterRefs(e) : UnknownFilterAt(e, i)

\* The factory of every reference of a known kind accepts the reference's arguments.
ArgumentsAccepted(e) ==
  /\ RefName(TokenizerRef(e)) \in TokenizerKinds =>
       CreateTokenizer(RefName(TokenizerRef(e)), RefArgs(TokenizerRef(e))).ok
  /\ \A i \in DOMAIN FilterRefs(e) :
       RefName(FilterRefs(e)[i]) \in FilterKinds =>
         CreateFilter(RefName(FilterRefs(e)[i]), RefArgs(FilterRefs(e)[i])).ok

\* An entry init cannot compile.
Faulty(e) ==
  \/ Deviates(e)
  \/ UnknownTokenizer(e)
  \/ UnknownFilter(e)
  \/ ~ArgumentsAccepted(e)

MandatoryArgument(kind) ==
  CASE kind = "remove_long" -> "length_limit"
    [] kind = "stemming" -> "stemmer_algorithm"
    [] kind = "stop_word" -> "words"

\* The i-th filter reference gives args, an object without the mandatory field.
LacksMandatoryAt(e, i) ==
  /\ i \in DOMAIN FilterRefs(e)
  /\ IsRef(FilterRefs(e)[i])
  /\ RefName(FilterRefs(e)[i]) \in {"remove_long", "stemming", "stop_word"}
  /\ contains_key(FilterRefs(e)[i].v, "args")
  /\ is_object(Index(FilterRefs(e)[i].v, "args"))
  /\ ~contains_key(Index(FilterRefs(e)[i].v, "args").v,
                   MandatoryArgument(RefName(FilterRefs(e)[i])))

\* This call of init left the manager's entry `n` as it found it.
NotRegistered(n) ==
  /\ n \notin DOMAIN source
  /\ n \in DOMAIN tokenizers <=> n \in DOMAIN before
  /\ n \in DOMAIN before => tokenizers[n] = before[n]

\* The manager holds under `n` a tokenizer of the kind entry value `e` names.
RegisteredFrom(n, e) ==
  /\ n \in DOMAIN tokenizers
  /\ n \in DOMAIN source
  /\ tokenizers[n].tokenizer.kind = RefName(TokenizerRef(e))
  /\ source[n].tokenizer = tokenizers[n].tokenizer

HasFailed == error.kind # "none"
\* The entry the loop of line 51 is at.
InEntry == entry \in DOMAIN config_map
Current == config_map[entry][2]

(***************************************************************************)
(* C1.  For every analyzer init registered from an entry with tokenizer T  *)
(* and filters f1..fn, the token stream of a text is fn(...f1(T(text))):   *)
(* the configured filters, in declared order, affect the output.           *)
(***************************************************************************)
C1_FiltersThreaded ==
  (stream.name \in DOMAIN source) =>
    /\ stream.found
    /\ stream.tokens =
         Analyze([tokenizer |-> source[stream.name].tokenizer,
                  filters |-> source[stream.name].filters],
                 stream.text)

(***************************************************************************)
(* C2.  When the configuration's only entry names an unknown tokenizer     *)
(* kind or an unknown filter kind, init does not complete and the registry *)
(* stays equal to the registry before the call; the failure is the         *)
(* unknown-component one when the entry has no other fault.                *)
(***************************************************************************)
C2_UnknownKindRegistersNothing ==
  (/\ Len(Members) = 1
   /\ UnknownTokenizer(Members[1][2]) \/ UnknownFilter(Members[1][2]))
  => /\ pc # "done"
     /\ tokenizers = before
     /\ (pc = "panicked" /\ ~Deviates(Members[1][2]) /\ ArgumentsAccepted(Members[1][2]))
          => error.kind = "unknown"

C2_Witness ==
  /\ pc = "panicked"
  /\ Len(Members) = 1
  /\ UnknownTokenizer(Members[1][2])
  /\ FilterRefs(Members[1][2]) # <<>>
  /\ error = UnknownError("tokenizer", "bogus")
  /\ tokenizers = before

(***************************************************************************)
(* C3 as claimed.  If init fails on any entry, none of the configuration's *)
(* analyzers is registered, the entries processed before the failing one   *)
(* included.                                                               *)
(***************************************************************************)
C3_NoPartialSuccess ==
  HasFailed => /\ source = NoEntries
               /\ tokenizers = before

(***************************************************************************)
(* C3 as amended.  init stops at the first entry, in the order it          *)
(* processes them, that it cannot compile: that entry and every later one  *)
(* are not registered, while every entry processed before it has been      *)
(* registered and stays registered.                                        *)
(***************************************************************************)
C3_FailureKeepsEarlierEntries ==
  HasFailed =>
    IF config_map = <<>> THEN tokenizers = before /\ source = NoEntries
    ELSE /\ InEntry
         /\ Faulty(Current)
         /\ \A k \in DOMAIN config_map :
              IF k < entry
              THEN ~Faulty(config_map[k][2]) /\ RegisteredFrom(config_map[k][1], config_map[k][2])
              ELSE NotRegistered(config_map[k][1])

C3_Witness ==
  /\ pc = "panicked"
  /\ entry = 2
  /\ RegisteredFrom(config_map[1][1], config_map[1][2])
  /\ tokenizers # before

(***************************************************************************)
(* C4.  When the document holds two entries of the same name, after a      *)
(* successful init the analyzer under that name is the one compiled from   *)
(* the later entry, whatever the manager held under the name before.       *)
(***************************************************************************)
C4_LastWriteWins ==
  pc = "done" =>
    \A i \in DOMAIN Members :
      (\A j \in DOMAIN Members : j > i => Members[j][1] # Members[i][1])
        => RegisteredFrom(Members[i][1], Members[i][2])

C4_Witness ==
  /\ pc = "done"
  /\ Len(Members) = 2
  /\ Members[1][1] = "default" /\ Members[2][1] = "default"
  /\ ~Deviates(Members[1][2])
  /\ RefName(TokenizerRef(Members[1][2])) = "simple"
  /\ RefName(TokenizerRef(Members[2][2])) = "raw"
  /\ tokenizers["default"].tokenizer.kind = "raw"
  /\ before["default"].tokenizer.kind = "simple"

(***************************************************************************)
(* C5.  With entry names unique in the document: init does not complete    *)
(* when the top-level value is no object or any entry deviates             *)
(* structurally; and it fails structurally only then, so never because     *)
(* `filters` or `args` is absent or because of the shape of `args`.        *)
(***************************************************************************)
C5_StructuralDeviationsFail ==
  /\ (pc = "done" /\ UniqueNames) =>
       /\ config # EmptyString /\ is_object(config[1])
       /\ \A i \in DOMAIN Members : ~Deviates(Members[i][2])
  /\ (pc = "panicked" /\ error.kind = "structural") =>
       \/ config = EmptyString
       \/ ~is_object(config[1])
       \/ \E i \in DOMAIN Members : Deviates(Members[i][2])

C5_Witness ==
  /\ pc = "panicked"
  /\ error.kind = "structural"
  /\ InEntry
  /\ item = 2
  /\ Len(FilterRefs(Current)) = 2
  /\ ~IsRef(FilterRefs(Current)[2])
  /\ IsRef(FilterRefs(Current)[1])
  /\ ~contains_key(FilterRefs(Current)[1].v, "args")

C7_TokenizerResolvedFirst ==
  (/\ pc = "panicked" /\ InEntry /\ error.kind = "unknown"
   /\ UnknownTokenizer(Current) /\ UnknownFilter(Current))
  => error.component = "tokenizer"

(***************************************************************************)
(* C7 as amended.  Within one entry the filters are resolved and           *)
(* constructed first, in declared order, and the tokenizer is resolved and *)
(* instantiated after all of them: an unknown-tokenizer error is reported  *)
(* only once every filter has been constructed, so when both a tokenizer   *)
(* kind and a filter kind are unknown the error is the unknown-filter one, *)
(* and an unknown-filter error names the earliest unknown filter.          *)
(***************************************************************************)
C7_FiltersResolvedFirst ==
  (pc = "panicked" /\ InEntry /\ error.kind = "unknown") =>
    /\ error.component = "tokenizer" =>
         /\ ~UnknownFilter(Current)
         /\ Len(filters) = Len(FilterRefs(Current))
         /\ error.name = RefName(TokenizerRef(Current))
    /\ error.component = "filter" =>
         /\ UnknownFilterAt(Current, item)
         /\ error.name = RefName(FilterRefs(Current)[item])
         /\ \A i \in 1..(item - 1) : ~UnknownFilterAt(Current, i)
         /\ Len(filters) = item - 1
    /\ UnknownFilter(Current) => error.component = "filter"

C7_Witness ==
  /\ pc = "panicked"
  /\ InEntry
  /\ UnknownTokenizer(Current)
  /\ UnknownFilterAt(Current, 1)
  /\ UnknownFilterAt(Current, 2)
  /\ RefName(FilterRefs(Current)[1]) # RefName(FilterRefs(Current)[2])
  /\ error = UnknownError("filter", RefName(FilterRefs(Current)[1]))

(***************************************************************************)
(* C8.  Once an error has occurred init has stopped: no filter reference   *)
(* at or after the failing one has been constructed, and neither the       *)
(* failing entry nor any entry after it is registered.                     *)
(***************************************************************************)
C8_FailFast ==
  HasFailed =>
    /\ pc = "panicked"
    /\ Len(filters) < item
    /\ \A k \in DOMAIN config_map : k >= entry => NotRegistered(config_map[k][1])

C8_Witness ==
  /\ pc = "panicked"
  /\ Len(config_map) = 2
  /\ entry = 1
  /\ item = 1
  /\ Len(FilterRefs(Current)) = 1
  /\ ~Faulty(config_map[2][2])
  /\ NotRegistered(config_map[2][1])

(***************************************************************************)
(* C9.  init changes nothing but the registry entries named in the         *)
(* configuration: every other entry of the manager is as it was before the *)
(* call, no other name appears, and the initializer's factories are the    *)
(* ones it was built with.                                                 *)
(***************************************************************************)
C9_Frame ==
  /\ \A n \in DOMAIN before : n \notin MemberNames => n \in DOMAIN tokenizers /\ tokenizers[n] = before[n]
  /\ DOMAIN tokenizers \subseteq DOMAIN before \cup MemberNames
  /\ initializer = [tokenizer_factories |-> TokenizerKinds, filter_factories |-> FilterKinds]

C9_Witness ==
  /\ pc = "done"
  /\ MemberNames = {"en_text"}
  /\ "en_text" \in DOMAIN tokenizers
  /\ tokenizers["default"] = before["default"]
  /\ tokenizers # before

(***************************************************************************)
(* C10.  After an init that completes, every entry's name is registered    *)
(* with a tokenizer of the kind the entry names, and it was registered     *)
(* when all of the entry's filter references had been constructed, each of *)
(* the kind it names.                                                      *)
(***************************************************************************)
C10_CompleteInitRegistersAll ==
  pc = "done" =>
    \A k \in DOMAIN config_map :
      LET n == config_map[k][1]
          e == config_map[k][2]
      IN /\ RegisteredFrom(n, e)
         /\ Len(source[n].filters) = Len(FilterRefs(e))
         /\ \A i \in DOMAIN FilterRefs(e) :
              source[n].filters[i].kind = RefName(FilterRefs(e)[i])

C10_Witness ==
  /\ pc = "done"
  /\ Len(config_map) = 1
  /\ RefName(TokenizerRef(config_map[1][2])) = "facet"
  /\ Len(FilterRefs(config_map[1][2])) = 1
  /\ tokenizers[config_map[1][1]].tokenizer.kind = "facet"

====
